---- MODULE Spec2Model ----
(***************************************************************************)
(* Batched execution of the ONNX Runtime backend                            *)
(* (src/src/backends/onnx/onnx_backend.cc).                                 *)
(*                                                                          *)
(* The model follows OnnxBackend::Run and OnnxBackend::Context::Run step by *)
(* step: every scheduler runner thread t walks through the program          *)
(* positions of one dispatch (pc[t]); the request/response providers, the   *)
(* ONNX runtime and the payload allocators are the environment, and every   *)
(* call into them is a choice over the results the call can return.         *)
(***************************************************************************)
EXTENDS Integers, Sequences, FiniteSets, TLC

(***************************************************************************)
(* Bounds of the environment.                                               *)
(***************************************************************************)
\* payloads in one dispatch
MaxPayloads == 2
\* batch size of one payload's request header
MaxPayloadBatch == 2
\* non-null chunks one content source returns for one input
MaxPulls == 2
\* bytes a chunk may exceed the requested size by
MaxOver == 1
\* per-payload environment faults (content, allocation, odd output shape) in
\* the dispatches under way
MaxFaults == 1

(***************************************************************************)
(* Program constants.                                                       *)
(***************************************************************************)
\* Context::NO_BATCHING: the max_batch_size_ of a model without batching
NO_BATCHING == 0
\* Context::NO_GPU_DEVICE
NO_GPU_DEVICE == -1

NULL == [null |-> TRUE]
\* a byte of a freshly allocated (new char[n]) buffer: indeterminate
UNINIT == <<"uninit">>
\* the values an indeterminate byte can turn out to hold when it is read
GarbageBytes == {<<"g0">>, <<"g1">>}

\* scheduler runner threads the model provides (one per context at most)
Threads == {0, 1}

(***************************************************************************)
(* Model configuration (read-only, shared by all contexts).                 *)
(***************************************************************************)
ConfigInputs ==
  << [name |-> "INPUT0", data_type |-> "TYPE_INT16", dims |-> <<1>>] >>

ConfigOutputs ==
  << [name |-> "OUTPUT0", data_type |-> "TYPE_INT8",  dims |-> <<1>>],
     [name |-> "OUTPUT1", data_type |-> "TYPE_INT16", dims |-> <<1>>] >>

\* an input a request provider may add on top of the configured ones
OverrideInput ==
  [name |-> "OVERRIDE0", data_type |-> "TYPE_INT8", dims |-> <<1>>]

\* Config().max_batch_size() of the models considered
ConfigMaxBatchSizes == {0, 3}

\* Config().instance_group() of the models considered under Spec
SingleInstanceGroups ==
  { << [kind |-> "KIND_CPU", count |-> 1, gpus |-> <<>>] >> }

\* Config().instance_group() of the models considered under SpecPar: two CPU
\* replicas, or one replica on each of two devices
ParInstanceGroups ==
  { << [kind |-> "KIND_CPU", count |-> 2, gpus |-> <<>>] >>,
    << [kind |-> "KIND_GPU", count |-> 1, gpus |-> <<0, 1>>] >> }

(***************************************************************************)
(* Pure helpers.                                                            *)
(***************************************************************************)
GetDataTypeByteSize(dt) ==
  CASE dt = "TYPE_INT8"  -> 1
    [] dt = "TYPE_INT16" -> 2
    [] dt = "TYPE_INT32" -> 4
    [] OTHER             -> 0

RECURSIVE GetElementCount(_)
GetElementCount(dims) ==
  IF dims = <<>> THEN 1 ELSE Head(dims) * GetElementCount(Tail(dims))

\* lines 314-319: the sum of the batch sizes of the payloads
\* (variant) only the first payload is counted
SumBatchOfFirst(pls) == IF pls = <<>> THEN 0 ELSE Head(pls).batch_size

RECURSIVE SumBatch(_)
SumBatch(pls) ==
  IF pls = <<>> THEN 0 ELSE Head(pls).batch_size + SumBatch(Tail(pls))

\* sum of the batch sizes of the payloads before position i (1-based)
BatchBefore(pls, i) == SumBatch(SubSeq(pls, 1, i - 1))

Min(a, b) == IF a < b THEN a ELSE b

\* k-th byte (0-based) of the content payload p holds for input `name`
ContentByte(p, name, k) == <<p, name, k>>

\* the bytes [from, from+len) of a payload's content stream
ContentBytes(p, name, from, len) ==
  [k \in 1..len |-> ContentByte(p, name, from + k - 1)]

\* memcpy(dst + off, src, Len(src)); bytes written past the end of dst show
\* as a dst grown past its allocation
Memcpy(dst, off, src) ==
  LET last == IF off + Len(src) > Len(dst) THEN off + Len(src) ELSE Len(dst)
  IN [k \in 1..last |->
        IF k > off /\ k <= off + Len(src) THEN src[k - off]
        ELSE IF k <= Len(dst) THEN dst[k] ELSE UNINIT]

\* the len bytes of buf from byte offset off on
Slice(buf, off, len) == SubSeq(buf, off + 1, off + len)

VARIABLES
  model_config,       \* Config(): max_batch_size and instance_group
  contexts_,          \* OnnxBackend::contexts_
  load_status,        \* result of CreateExecutionContexts: "none" before the call
  runner_cnt,         \* runners registered with the scheduler (0: none)
  pc,                 \* per thread: position in OnnxBackend::Run / Context::Run
  runner_idx,         \* per thread: the runner_idx argument of the dispatch
  payloads,           \* per thread: the payload vector of the dispatch
  total_batch_size,   \* per thread: local of Context::Run
  todo_inputs,        \* per thread: inputs still to assemble (loop of lines 343-370)
  override_seen,      \* per thread: GetInputOverride() has been consulted
  override_from,      \* per thread: position of the payload whose request
                      \* provider carries an input override, 0: none does
  input_names,        \* per thread: local of Context::Run
  output_names,       \* per thread: local of Context::Run (lines 374-378)
  input_buffers,      \* per thread: local of Context::Run (owned buffers)
  cur,                \* per thread: locals of SetInputTensor's payload loop
  out_idx,            \* per thread: idx of ReadOutputTensors' outer loop
  ret,                \* per thread: status returned by Context::Run
  cb_count,           \* per thread: completion callbacks of the current dispatch
  cb_status,          \* per thread: status given to the completion callback
  ort_calls,          \* per thread: OrtRun invocations of the current dispatch
  faults,             \* per thread: environment faults injected in the dispatch
  delivery,           \* per thread: per payload, the input (position in
                      \* input_names) its source misdelivered; 0: none
  dist_idx,           \* per thread: the output distributed last (0: none yet)
  out_bufs            \* per thread: per payload, its response buffer for the
                      \* output distributed last

vars == << model_config, contexts_, load_status, runner_cnt, pc, runner_idx,
           payloads, total_batch_size, todo_inputs, override_seen, override_from, input_names,
           output_names, input_buffers, cur, out_idx, ret, cb_count, cb_status, ort_calls,
           faults, delivery, dist_idx, out_bufs >>

ctx_vars == << model_config, contexts_, load_status, runner_cnt >>

\* the environment faults injected in the dispatches under way
RECURSIVE SumOver(_, _)
SumOver(f, S) ==
  IF S = {} THEN 0
  ELSE LET x == CHOOSE y \in S : TRUE IN f[x] + SumOver(f, S \ {x})

FaultsInFlight == SumOver(faults, Threads)

NoCur == [pl |-> 0, copied |-> 0, pulls |-> 0, offset |-> 0]

\* a response buffer of a payload for one output: state "ok" with the bytes
\* copied into it, or no buffer ("none": not asked yet, "not_required",
\* "alloc_failed")
NoBuffer(state) == [state |-> state, bytes |-> <<>>]


(***************************************************************************)
(* Backend load: OnnxBackend::CreateExecutionContexts.                      *)
(***************************************************************************)
\* what creating one context can end in; "ok", or the step that fails
CreateOutcomes ==
  {"ok", "cuda_props", "no_model_file", "session", "validate_inputs",
   "validate_outputs", "allocator_info"}

\* the failures that return before contexts_.emplace_back (line 187)
FailsBeforeEmplace == {"cuda_props", "no_model_file"}

\* (variant) one context per replica, whatever devices the group lists
RECURSIVE InstancesOfGroupOnePerReplica(_, _)
InstancesOfGroupOnePerReplica(group, c) ==
  IF c >= group.count THEN <<>>
  ELSE << [instance |-> c,
           gpu_device |-> IF group.kind = "KIND_CPU" THEN NO_GPU_DEVICE
                          ELSE group.gpus[1]] >>
       \o InstancesOfGroupOnePerReplica(group, c + 1)

\* the (name, device) of every context the instance groups ask for, in the
\* order of the loops of CreateExecutionContextsHelper
RECURSIVE InstancesOfGroup(_, _)
InstancesOfGroup(group, c) ==
  IF c >= group.count THEN <<>>
  ELSE (IF group.kind = "KIND_CPU"
          THEN << [instance |-> c, gpu_device |-> NO_GPU_DEVICE] >>
          ELSE [k \in 1..Len(group.gpus) |->
                  [instance |-> c, gpu_device |-> group.gpus[k]]])
       \o InstancesOfGroup(group, c + 1)

RECURSIVE InstanceList(_)
InstanceList(groups) ==
  IF groups = <<>> THEN <<>>
  ELSE InstancesOfGroup(Head(groups), 0) \o InstanceList(Tail(groups))

\* the context CreateExecutionContext builds for one instance; `outcome` is
\* how far the creation got
NewContext(inst, max_batch_size, outcome) ==
  [ gpu_device_     |-> inst.gpu_device,
    max_batch_size_ |-> IF max_batch_size <= 0 THEN NO_BATCHING
                        ELSE max_batch_size,
    session_        |-> IF outcome = "session" THEN NULL ELSE [handle |-> "session"],
    allocator_info_ |-> IF outcome = "ok" THEN [handle |-> "allocator_info"]
                        ELSE NULL,
    input_tensors_  |-> <<>>,
    output_tensors_ |-> <<>> ]

InitWith(groupsSet) ==
  /\ model_config \in [max_batch_size : ConfigMaxBatchSizes,
                       instance_group : groupsSet]
  /\ contexts_ = <<>>
  /\ load_status = "none"
  /\ runner_cnt = 0
  /\ pc = [t \in Threads |-> "idle"]
  /\ runner_idx = [t \in Threads |-> 0]
  /\ payloads = [t \in Threads |-> <<>>]
  /\ total_batch_size = [t \in Threads |-> 0]
  /\ todo_inputs = [t \in Threads |-> <<>>]
  /\ override_seen = [t \in Threads |-> FALSE]
  /\ override_from = [t \in Threads |-> 0]
  /\ input_names = [t \in Threads |-> <<>>]
  /\ output_names = [t \in Threads |-> <<>>]
  /\ input_buffers = [t \in Threads |-> <<>>]
  /\ cur = [t \in Threads |-> NoCur]
  /\ out_idx = [t \in Threads |-> 0]
  /\ ret = [t \in Threads |-> "none"]
  /\ cb_count = [t \in Threads |-> 0]
  /\ cb_status = [t \in Threads |-> "none"]
  /\ ort_calls = [t \in Threads |-> 0]
  /\ faults = [t \in Threads |-> 0]
  /\ delivery = [t \in Threads |-> <<>>]
  /\ dist_idx = [t \in Threads |-> 0]
  /\ out_bufs = [t \in Threads |-> <<>>]

Init == InitWith(SingleInstanceGroups)

\* a batching model with two contexts
InitPar ==
  /\ InitWith(ParInstanceGroups)
  /\ model_config.max_batch_size > 0

run_vars == << pc, runner_idx, payloads, total_batch_size, todo_inputs,
               override_seen, override_from, input_names, output_names, input_buffers, cur, out_idx, ret,
               cb_count, cb_status, ort_calls, faults, delivery, dist_idx,
               out_bufs >>

\* (variant) the scheduler is configured whatever the creation ended in
RunnersRegisteredAlways(outcome, total_context_cnt) == total_context_cnt

\* lines 108-134: SetConfiguredScheduler(total_context_cnt, ...) is reached
\* only when no context creation returned an error
RunnersRegistered(outcome, total_context_cnt) ==
  IF outcome = "ok" THEN total_context_cnt ELSE 0

\* CreateExecutionContexts: the contexts are created one after the other; the
\* first failure returns at once; the scheduler is configured after the last.
CreateExecutionContexts ==
  /\ load_status = "none"
  /\ LET insts == InstanceList(model_config.instance_group)
         mbs   == model_config.max_batch_size
     IN \E n_ok \in 0..Len(insts) :
        \E outcome \in CreateOutcomes :
          /\ (outcome = "ok") <=> (n_ok = Len(insts))
          /\ outcome = "cuda_props" => insts[n_ok + 1].gpu_device # NO_GPU_DEVICE
          /\ contexts_' =
               [k \in 1..(IF outcome = "ok" \/ outcome \in FailsBeforeEmplace
                          THEN n_ok ELSE n_ok + 1) |->
                  NewContext(insts[k], mbs, IF k <= n_ok THEN "ok" ELSE outcome)]
          /\ load_status' = IF outcome = "ok" THEN "ok" ELSE outcome
          /\ runner_cnt' = RunnersRegistered(outcome, Len(insts))
  /\ UNCHANGED << model_config, run_vars >>

(***************************************************************************)
(* OnnxBackend::Run, entry (lines 259-285).                                 *)
(***************************************************************************)
PayloadStatuses == {"OK", "PRE_FAILED"}

Payload == [batch_size : 0..MaxPayloadBatch, status : PayloadStatuses]

PayloadLists == UNION { [1..n -> Payload] : n \in 0..MaxPayloads }

\* the dispatches considered while several contexts run side by side
ParPayloadLists ==
  { <<>>,
    << [batch_size |-> 1, status |-> "OK"] >>,
    << [batch_size |-> 1, status |-> "PRE_FAILED"] >> }

DispatchLists == IF Len(contexts_) > 1 THEN ParPayloadLists ELSE PayloadLists

\* (variant) every runner thread is handed runner index 0
RunnerIndexesShared(t) == {0}

\* the runner_idx the scheduler's thread t calls Run with: its own (each
\* runner is tied to one context, lines 125-134), or one past the contexts
RunnerIndexes(t) == {t, Len(contexts_)}

\* the context a thread's dispatch runs on (contexts_[runner_idx], 0-based)
Ctx(t) == contexts_[runner_idx[t] + 1]

\* (variant) the index one past the contexts is let through
ValidRunnerInclusive(idx) == idx <= Len(contexts_)

\* lines 264-270: the runner index names a context
ValidRunner(idx) == idx < Len(contexts_)

\* (variant) the callback is handed success whatever the run returned
CompletionStatusAlwaysSuccess(t) == "Success"

\* the status OnnxBackend::Run hands to OnCompleteQueuedPayloads at line 289
CompletionStatus(t) == ret[t]

\* the scheduler's runner thread t calls Run(idx, pls, callback) when its
\* previous dispatch has called back. idx is t, or an index past the contexts.
Dispatch(t) ==
  /\ load_status = "ok"
  /\ t < runner_cnt
  /\ pc[t] = "idle"
  /\ \E idx \in RunnerIndexes(t) : \E pls \in DispatchLists :
       /\ runner_idx' = [runner_idx EXCEPT ![t] = idx]
       /\ payloads' = [payloads EXCEPT ![t] = pls]
       /\ delivery' = [delivery EXCEPT ![t] = [k \in 1..Len(pls) |-> 0]]
       /\ out_bufs' = [out_bufs EXCEPT ![t] =
                         [k \in 1..Len(pls) |-> NoBuffer("none")]]
       /\ dist_idx' = [dist_idx EXCEPT ![t] = 0]
       /\ IF ValidRunner(idx)
            THEN /\ pc' = [pc EXCEPT ![t] = "ctx_run"]
                 /\ cb_count' = [cb_count EXCEPT ![t] = 0]
                 /\ cb_status' = [cb_status EXCEPT ![t] = "none"]
            ELSE /\ pc' = [pc EXCEPT ![t] = "done"]
                 /\ cb_count' = [cb_count EXCEPT ![t] = 1]
                 /\ cb_status' = [cb_status EXCEPT ![t] = "ERR_RUNNER_INDEX"]
  /\ total_batch_size' = [total_batch_size EXCEPT ![t] = 0]
  /\ todo_inputs' = [todo_inputs EXCEPT ![t] = <<>>]
  /\ override_seen' = [override_seen EXCEPT ![t] = FALSE]
  /\ override_from' = [override_from EXCEPT ![t] = 0]
  /\ input_names' = [input_names EXCEPT ![t] = <<>>]
  /\ output_names' = [output_names EXCEPT ![t] = <<>>]
  /\ input_buffers' = [input_buffers EXCEPT ![t] = <<>>]
  /\ cur' = [cur EXCEPT ![t] = NoCur]
  /\ out_idx' = [out_idx EXCEPT ![t] = 0]
  /\ ret' = [ret EXCEPT ![t] = "none"]
  /\ ort_calls' = [ort_calls EXCEPT ![t] = 0]
  /\ faults' = [faults EXCEPT ![t] = 0]
  /\ UNCHANGED ctx_vars

(***************************************************************************)
(* OnnxBackend::Context::Run (lines 293-389).                               *)
(***************************************************************************)
\* Context::Run returns `status`: its locals (input_buffers, input_names,
\* output_names) are
\* destroyed, and OnnxBackend::Run goes on at line 288
ReturnFromContextRun(t, status) ==
  /\ ret' = [ret EXCEPT ![t] = status]
  /\ input_buffers' = [input_buffers EXCEPT ![t] = <<>>]
  /\ input_names' = [input_names EXCEPT ![t] = <<>>]
  /\ output_names' = [output_names EXCEPT ![t] = <<>>]
  /\ pc' = [pc EXCEPT ![t] = "release"]

\* (variant) the payload statuses are not looked at
FirstNonOkIgnored(pls, i) == 0

\* position of the first payload whose status is not OK (0: none)
RECURSIVE FirstNonOk(_, _)
FirstNonOk(pls, i) ==
  IF i > Len(pls) THEN 0
  ELSE IF pls[i].status # "OK" THEN i ELSE FirstNonOk(pls, i + 1)

\* (variant) an empty batch is run like any other
NothingToRunNever(total) == FALSE

\* line 324: no payload has anything to run
NothingToRun(total) == total = 0

\* (variant) the rule without the exception for a total batch size of 1
BatchSizeAllowedNoSingle(total, max_batch_size) == total <= max_batch_size

\* (variant) every total batch size is let through
BatchSizeAllowedAlways(total, max_batch_size) == TRUE

\* the batch-size rule of line 330
BatchSizeAllowed(total, max_batch_size) ==
  ~ ((total # 1) /\ (total > max_batch_size))

\* lines 305-335: total batch size, and the checks before any input is built
CollectBatch(t) ==
  /\ pc[t] = "ctx_run"
  /\ LET pls == payloads[t]
         bad == FirstNonOk(pls, 1)
         total == IF bad = 0 THEN SumBatch(pls) ELSE BatchBefore(pls, bad)
     IN /\ total_batch_size' = [total_batch_size EXCEPT ![t] = total]
        /\ IF bad # 0
             THEN /\ ReturnFromContextRun(t, "ERR_PAYLOAD_STATUS")
                  /\ UNCHANGED todo_inputs
           ELSE IF NothingToRun(total)
             THEN /\ ReturnFromContextRun(t, "Success")
                  /\ UNCHANGED todo_inputs
           ELSE IF ~ BatchSizeAllowed(total, Ctx(t).max_batch_size_)
             THEN /\ ReturnFromContextRun(t, "ERR_BATCH_SIZE")
                  /\ UNCHANGED todo_inputs
           ELSE /\ pc' = [pc EXCEPT ![t] = "set_input"]
                /\ todo_inputs' = [todo_inputs EXCEPT ![t] = ConfigInputs]
                /\ UNCHANGED << ret, input_buffers, input_names, output_names >>
  /\ UNCHANGED << ctx_vars, runner_idx, payloads, override_seen, override_from, cur, out_idx,
                  cb_count, cb_status, ort_calls, faults, delivery, dist_idx, out_bufs >>


(***************************************************************************)
(* OnnxBackend::Context::SetInputTensor (lines 391-482), called once per    *)
(* input of the loops at lines 343-370.                                     *)
(***************************************************************************)
\* lines 402-415: byte size of one batch item of an input
Batch1ByteSize(input) ==
  GetElementCount(input.dims) * GetDataTypeByteSize(input.data_type)

\* lines 403-412: the shape of the tensor, batch dimension first if batching
InputDims(max_batch_size, total, dims) ==
  IF max_batch_size # NO_BATCHING THEN <<total>> \o dims ELSE dims

\* line 428: the bytes payload pl is expected to deliver for an input
ExpectedByteSize(pls, pl, input) == pls[pl].batch_size * Batch1ByteSize(input)

\* (variant) the offset is not moved on after a payload
NextCopyOffsetStale(offset, expected, copied) == offset

\* (variant) the offset moves on by what the payload delivered
NextCopyOffsetByCopied(offset, expected, copied) == offset + copied

\* line 471: the offset of the next payload's region
NextCopyOffset(offset, expected, copied) == offset + expected

\* (variant) no chunk is taken to pass the end of the buffer
ChunkOverflowsNever(offset, copied, size, total_byte_size) == FALSE

\* lines 445-446: the chunk would pass the end of the buffer
ChunkOverflows(offset, copied, size, total_byte_size) ==
  (offset + copied + size) > total_byte_size

\* (variant) the field is replaced in the first context, whoever runs
SetCtxFieldFirst(t, field, val) ==
  [contexts_ EXCEPT ![1] = [@ EXCEPT ![field] = val]]

\* contexts_ with one field of the running context replaced
SetCtxField(t, field, val) ==
  [contexts_ EXCEPT ![runner_idx[t] + 1] = [@ EXCEPT ![field] = val]]

\* lines 398-423: names, placeholder and buffer of the next input
SetInputTensorBegin(t) ==
  /\ pc[t] = "set_input"
  /\ todo_inputs[t] # <<>>
  /\ LET input == Head(todo_inputs[t])
         total_byte_size == total_batch_size[t] * Batch1ByteSize(input)
     IN /\ input_names' = [input_names EXCEPT ![t] = Append(@, input.name)]
        /\ contexts_' = SetCtxField(t, "input_tensors_",
                                    Append(Ctx(t).input_tensors_, NULL))
        /\ input_buffers' = [input_buffers EXCEPT ![t] =
                               Append(@, [k \in 1..total_byte_size |-> UNINIT])]
        /\ cur' = [cur EXCEPT ![t] = [pl |-> 1, copied |-> 0, pulls |-> 0,
                                      offset |-> 0]]
        /\ pc' = [pc EXCEPT ![t] = "copy"]
  /\ UNCHANGED << model_config, load_status, runner_cnt, runner_idx, payloads,
                  total_batch_size, todo_inputs, override_seen, override_from, output_names, out_idx, ret,
                  cb_count, cb_status, ort_calls, faults, delivery, dist_idx, out_bufs >>

\* lines 463-471 and the loop's next round: payload cur.pl is finished with
\* status `st`; the offset moves on by the expected size
FinishPayload(t, st) ==
  LET input == Head(todo_inputs[t])
      c == cur[t]
      expected == ExpectedByteSize(payloads[t], c.pl, input)
      final == IF st = "OK" /\ c.copied # expected THEN "INTERNAL" ELSE st
  IN /\ payloads' = [payloads EXCEPT ![t][c.pl].status = final]
     /\ cur' = [cur EXCEPT ![t] = [pl |-> c.pl + 1, copied |-> 0, pulls |-> 0,
                                   offset |-> NextCopyOffset(c.offset, expected,
                                                             c.copied)]]
     /\ pc' = [pc EXCEPT ![t] =
                 IF c.pl + 1 > Len(payloads[t]) THEN "wrap" ELSE "copy"]

\* line 431 false on entry: a payload that is not OK is not asked for content
CopySkip(t) ==
  /\ pc[t] = "copy"
  /\ payloads[t][cur[t].pl].status # "OK"
  /\ FinishPayload(t, payloads[t][cur[t].pl].status)
  /\ UNCHANGED << ctx_vars, runner_idx, total_batch_size, todo_inputs,
                  override_seen, override_from, input_names, output_names, input_buffers, out_idx, ret,
                  cb_count, cb_status, ort_calls, faults, delivery, dist_idx, out_bufs >>

\* the source of payload cur.pl misdelivers the input being assembled
MarkBad(t) ==
  delivery' = [delivery EXCEPT ![t][cur[t].pl] = Len(input_names[t])]

\* lines 434-438: GetNextInputContent returns an error status
PullError(t) ==
  /\ pc[t] = "copy"
  /\ payloads[t][cur[t].pl].status = "OK"
  /\ FaultsInFlight < MaxFaults
  /\ faults' = [faults EXCEPT ![t] = @ + 1]
  /\ MarkBad(t)
  /\ FinishPayload(t, "ERR_CONTENT")
  /\ UNCHANGED << ctx_vars, runner_idx, total_batch_size, todo_inputs,
                  override_seen, override_from, input_names, output_names, input_buffers, out_idx, ret,
                  cb_count, cb_status, ort_calls, dist_idx, out_bufs >>

\* lines 440-443: GetNextInputContent returns no content
PullNull(t) ==
  /\ pc[t] = "copy"
  /\ payloads[t][cur[t].pl].status = "OK"
  /\ LET short == cur[t].copied <
                    ExpectedByteSize(payloads[t], cur[t].pl, Head(todo_inputs[t]))
     IN /\ short => FaultsInFlight < MaxFaults
        /\ faults' = [faults EXCEPT ![t] = IF short THEN @ + 1 ELSE @]
        /\ IF short THEN MarkBad(t) ELSE UNCHANGED delivery
  /\ FinishPayload(t, "OK")
  /\ UNCHANGED << ctx_vars, runner_idx, total_batch_size, todo_inputs,
                  override_seen, override_from, input_names, output_names, input_buffers, out_idx, ret,
                  cb_count, cb_status, ort_calls, dist_idx, out_bufs >>

\* lines 445-460: GetNextInputContent returns a chunk of `size` bytes, the
\* next bytes of the payload's content
PullChunk(t) ==
  /\ pc[t] = "copy"
  /\ payloads[t][cur[t].pl].status = "OK"
  /\ cur[t].pulls < MaxPulls
  /\ LET input == Head(todo_inputs[t])
         c == cur[t]
         expected == ExpectedByteSize(payloads[t], c.pl, input)
         remaining == IF expected > c.copied THEN expected - c.copied ELSE 0
         buffer == input_buffers[t][Len(input_buffers[t])]
     IN \E size \in 0..(remaining + MaxOver) :
          LET over == c.copied + size > expected
              leaves_short == (c.copied + size < expected)
                              /\ (c.pulls + 1 = MaxPulls)
          IN /\ (over \/ leaves_short) => FaultsInFlight < MaxFaults
             /\ faults' = [faults EXCEPT ![t] = IF over THEN @ + 1 ELSE @]
             /\ IF over THEN MarkBad(t) ELSE UNCHANGED delivery
             /\ IF ChunkOverflows(c.offset, c.copied, size, Len(buffer))
                  THEN /\ FinishPayload(t, "INVALID_ARG")
                       /\ UNCHANGED input_buffers
                  ELSE /\ input_buffers' =
                            [input_buffers EXCEPT ![t][Len(input_buffers[t])] =
                               Memcpy(buffer, c.offset + c.copied,
                                      ContentBytes(c.pl, input.name, c.copied, size))]
                       /\ cur' = [cur EXCEPT ![t].copied = c.copied + size,
                                             ![t].pulls = c.pulls + 1]
                       /\ UNCHANGED << payloads, pc >>
  /\ UNCHANGED << ctx_vars, runner_idx, total_batch_size, todo_inputs,
                  override_seen, override_from, input_names, output_names, out_idx, ret,
                  cb_count, cb_status, ort_calls, dist_idx, out_bufs >>

\* lines 476-481: the buffer is wrapped as a tensor; then the loops of lines
\* 343-370 go on with the next input
WrapTensor(t) ==
  /\ pc[t] = "wrap"
  /\ LET input == Head(todo_inputs[t])
         handle == [buffer |-> Len(input_buffers[t]),
                    dims |-> InputDims(Ctx(t).max_batch_size_,
                                       total_batch_size[t], input.dims),
                    data_type |-> input.data_type]
         tensors == Ctx(t).input_tensors_
     IN \/ /\ ReturnFromContextRun(t, "ERR_ORT_TENSOR")
           /\ UNCHANGED << contexts_, todo_inputs >>
        \/ /\ contexts_' = SetCtxField(t, "input_tensors_",
                              [tensors EXCEPT ![Len(tensors)] = handle])
           /\ todo_inputs' = [todo_inputs EXCEPT ![t] = Tail(@)]
           /\ pc' = [pc EXCEPT ![t] =
                       IF Tail(todo_inputs[t]) # <<>> THEN "set_input"
                       ELSE IF ~ override_seen[t] THEN "override"
                       ELSE "ort_run"]
           /\ UNCHANGED << ret, input_buffers, input_names, output_names >>
  /\ UNCHANGED << model_config, load_status, runner_cnt, runner_idx, payloads,
                  total_batch_size, override_seen, override_from, cur, out_idx,
                  cb_count, cb_status, ort_calls, faults, delivery, dist_idx, out_bufs >>

\* line 318: the request provider whose overrides are consulted is the one
\* the loop of lines 305-319 assigned last
RepresentativePayload(pls) == Len(pls)

\* lines 357-370: GetInputOverride() of the representative payload's request
\* provider: one more input to assemble if that provider carries an
\* override. Which payload's provider carries one is the scheduler's choice.
InputOverride(t) ==
  /\ pc[t] = "override"
  /\ override_seen' = [override_seen EXCEPT ![t] = TRUE]
  /\ \E from \in 0..Len(payloads[t]) :
       /\ override_from' = [override_from EXCEPT ![t] = from]
       /\ IF from = RepresentativePayload(payloads[t])
            THEN /\ pc' = [pc EXCEPT ![t] = "set_input"]
                 /\ todo_inputs' = [todo_inputs EXCEPT ![t] = <<OverrideInput>>]
            ELSE /\ pc' = [pc EXCEPT ![t] = "ort_run"]
                 /\ UNCHANGED todo_inputs
  /\ UNCHANGED << ctx_vars, runner_idx, payloads, total_batch_size,
                  input_names, output_names, input_buffers, cur, out_idx, ret, cb_count,
                  cb_status, ort_calls, faults, delivery, dist_idx, out_bufs >>


(***************************************************************************)
(* The runtime call (lines 372-385). The runtime is the environment: it     *)
(* computes every requested output row by row from the rows of the input    *)
(* tensors it is handed.                                                    *)
(***************************************************************************)
\* what the runtime can hand back for one output
TensorKinds == {"ok", "null", "wrong_type", "wrong_count"}

\* (variant) only the first configured output is requested
OutputNamesFirstOnly == << ConfigOutputs[1].name >>

\* lines 374-378: the names requested from the runtime
OutputNames == [k \in 1..Len(ConfigOutputs) |-> ConfigOutputs[k].name]

\* base->GetOutput(name): the configured output of that name
GetOutput(name) ==
  CHOOSE o \in {ConfigOutputs[k] : k \in 1..Len(ConfigOutputs)} : o.name = name

\* a data type whose element size differs from dt's
OtherSizedType(dt) == IF dt = "TYPE_INT16" THEN "TYPE_INT32" ELSE "TYPE_INT16"

\* an indeterminate byte read by the runtime holds the value g
ReadByte(b, g) == IF b = UNINIT THEN g ELSE b

\* row j (0-based) of every input tensor, as the runtime reads it
InputRow(t, j, g) ==
  [i \in 1..Len(Ctx(t).input_tensors_) |->
     LET buf == input_buffers[t][Ctx(t).input_tensors_[i].buffer]
         row == Len(buf) \div total_batch_size[t]
     IN [k \in 1..row |-> ReadByte(buf[j * row + k], g)]]

\* the tensor the runtime produces for output o
RuntimeOutput(t, o, kind, g) ==
  IF kind = "null" THEN NULL
  ELSE
    LET dt == IF kind = "wrong_type" THEN OtherSizedType(o.data_type)
              ELSE o.data_type
        good == InputDims(Ctx(t).max_batch_size_, total_batch_size[t], o.dims)
        shape == IF kind = "wrong_count"
                   THEN [good EXCEPT ![1] = @ + 1] ELSE good
        rowbytes == GetElementCount(o.dims) * GetDataTypeByteSize(dt)
        bytes == GetElementCount(shape) * GetDataTypeByteSize(dt)
    IN [data_type |-> dt,
        shape |-> shape,
        content |-> [q \in 1..bytes |->
                       LET j == (q - 1) \div rowbytes
                       IN << o.name, (q - 1) % rowbytes,
                             IF j < total_batch_size[t]
                               THEN InputRow(t, j, g) ELSE <<>> >>]]

HasUninit(t) ==
  \E i \in 1..Len(input_buffers[t]) :
    \E k \in 1..Len(input_buffers[t][i]) : input_buffers[t][i][k] = UNINIT

\* lines 374-378: a placeholder per requested output
Placeholders == [k \in 1..Len(OutputNames) |-> NULL]

\* (variant) a failed runtime call is made again
OrtRunErrorRetried(t) ==
  /\ contexts_' = SetCtxField(t, "output_tensors_",
                              Ctx(t).output_tensors_ \o Placeholders)
  /\ UNCHANGED << pc, ret, input_buffers, input_names, output_names, faults,
                  out_idx >>

\* line 381, RETURN_IF_ORT_ERROR: the runtime call fails, Context::Run returns
\* the error with the placeholders still null
OrtRunError(t) ==
  /\ contexts_' = SetCtxField(t, "output_tensors_",
                              Ctx(t).output_tensors_ \o Placeholders)
  /\ ReturnFromContextRun(t, "ERR_ORT_RUN")
  /\ UNCHANGED << faults, out_idx >>

\* lines 372-385: the placeholders are reserved and the runtime is called
OrtRun(t) ==
  /\ pc[t] = "ort_run"
  /\ ort_calls' = [ort_calls EXCEPT ![t] = @ + 1]
  /\ LET placeholders == Placeholders
     IN \/ OrtRunError(t)
        \/ \E odd \in 0..Len(OutputNames) : \E kind \in TensorKinds :
           \E g \in GarbageBytes :
             /\ (odd = 0) <=> (kind = "ok")
             /\ (~ HasUninit(t)) => g = <<"g0">>
             /\ kind = "wrong_count" => FaultsInFlight < MaxFaults
             /\ faults' = [faults EXCEPT ![t] =
                             IF kind = "wrong_count" THEN @ + 1 ELSE @]
             /\ contexts_' = SetCtxField(t, "output_tensors_",
                   LET reserved == Ctx(t).output_tensors_ \o placeholders
                   IN [k \in 1..Len(reserved) |->
                         IF k <= Len(OutputNames)
                           THEN RuntimeOutput(t, GetOutput(OutputNames[k]),
                                    IF k = odd THEN kind ELSE "ok", g)
                           ELSE reserved[k]])
             /\ pc' = [pc EXCEPT ![t] = "read_output"]
             /\ out_idx' = [out_idx EXCEPT ![t] = 1]
             /\ output_names' = [output_names EXCEPT ![t] = OutputNames]
             /\ UNCHANGED << ret, input_buffers, input_names >>
  /\ UNCHANGED << model_config, load_status, runner_cnt, runner_idx, payloads,
                  total_batch_size, todo_inputs, override_seen, override_from, cur,
                  cb_count, cb_status, delivery, dist_idx, out_bufs >>


(***************************************************************************)
(* OnnxBackend::Context::ReadOutputTensors (lines 484-567): one round of    *)
(* the loop over the outputs per step.                                      *)
(***************************************************************************)
\* what a payload's response provider answers for one output: the output is
\* not required (or there is no response provider), the allocation of the
\* buffer fails, or a buffer is handed out
Responses == {"not_required", "alloc_failed", "ok"}

\* (variant) the read offset is not moved on after a payload
NextContentOffsetStale(offset, expected) == offset

\* line 563: the offset of the next payload's slice
NextContentOffset(offset, expected) == offset + expected

\* line 527
OutputBatch1ByteSize(total_byte_size, total) == total_byte_size \div total

\* line 529: the size check of an output
OutputSizeOk(actual_byte_size, total_byte_size) ==
  actual_byte_size = total_byte_size

\* line 555: the bytes copied into the buffer of a payload
CopiedSlice(content, offset, expected) == Slice(content, offset, expected)

\* lines 538-564: per payload, the response buffer filled ("not_required" and
\* "alloc_failed": none), payloads visited in order from position i on
RECURSIVE Distribute(_, _, _, _, _, _)
Distribute(pls, resp, content, batch1_byte_size, i, content_offset) ==
  IF i > Len(pls) THEN <<>>
  ELSE LET expected == pls[i].batch_size * batch1_byte_size
       IN << IF resp[i] = "ok"
               THEN [state |-> "ok",
                     bytes |-> CopiedSlice(content, content_offset, expected)]
               ELSE NoBuffer(resp[i]) >>
          \o Distribute(pls, resp, content, batch1_byte_size, i + 1,
                        NextContentOffset(content_offset, expected))

\* (variant) the allocation's status is assigned to the payload in any case
StatusAfterAllocAssigned(status, response) ==
  IF response = "alloc_failed" THEN "ERR_ALLOC"
  ELSE IF response = "ok" THEN "OK" ELSE status

\* (variant) an allocation that did not fail clears the payload's status
StatusAfterAllocCleared(status, response) ==
  IF response = "alloc_failed" THEN "ERR_ALLOC" ELSE "OK"

\* lines 558-560: a payload's status after its allocation
StatusAfterAlloc(status, response) ==
  IF response = "alloc_failed" THEN "ERR_ALLOC" ELSE status

ReadOutputTensor(t) ==
  /\ pc[t] = "read_output"
  /\ out_idx[t] <= Len(output_names[t])
  /\ LET idx == out_idx[t]
         output_config == GetOutput(output_names[t][idx])
         tensor == Ctx(t).output_tensors_[idx]
         n == Len(payloads[t])
     IN IF tensor = NULL
          THEN /\ ReturnFromContextRun(t, "ERR_OUTPUT_NULL")
               /\ UNCHANGED << payloads, out_bufs, dist_idx, out_idx, faults >>
        ELSE
          LET element_count == GetElementCount(tensor.shape)
              total_byte_size ==
                element_count * GetDataTypeByteSize(tensor.data_type)
              actual_byte_size ==
                element_count * GetDataTypeByteSize(output_config.data_type)
              batch1_byte_size ==
                OutputBatch1ByteSize(total_byte_size, total_batch_size[t])
          IN \/ /\ ReturnFromContextRun(t, "ERR_ORT_TENSOR_INFO")
                /\ UNCHANGED << payloads, out_bufs, dist_idx, out_idx, faults >>
             \/ /\ ~ OutputSizeOk(actual_byte_size, total_byte_size)
                /\ ReturnFromContextRun(t, "ERR_OUTPUT_SIZE")
                /\ UNCHANGED << payloads, out_bufs, dist_idx, out_idx, faults >>
             \/ /\ OutputSizeOk(actual_byte_size, total_byte_size)
                /\ \E resp \in [1..n -> Responses] :
                     LET failed == Cardinality({i \in 1..n :
                                                  resp[i] = "alloc_failed"})
                         got == Distribute(payloads[t], resp, tensor.content,
                                           batch1_byte_size, 1, 0)
                     IN /\ FaultsInFlight + failed <= MaxFaults
                        /\ faults' = [faults EXCEPT ![t] = @ + failed]
                        /\ payloads' = [payloads EXCEPT ![t] =
                             [i \in 1..n |->
                                [@[i] EXCEPT !.status =
                                   StatusAfterAlloc(@, resp[i])]]]
                        /\ out_bufs' = [out_bufs EXCEPT ![t] = got]
                        /\ dist_idx' = [dist_idx EXCEPT ![t] = idx]
                /\ out_idx' = [out_idx EXCEPT ![t] = idx + 1]
                /\ UNCHANGED << ret, input_buffers, input_names, output_names, pc >>
  /\ UNCHANGED << ctx_vars, runner_idx, total_batch_size, todo_inputs,
                  override_seen, override_from, cur, cb_count, cb_status, ort_calls,
                  delivery >>

\* line 566: every output has been distributed
ReadOutputsDone(t) ==
  /\ pc[t] = "read_output"
  /\ out_idx[t] > Len(output_names[t])
  /\ ReturnFromContextRun(t, "Success")
  /\ UNCHANGED << ctx_vars, runner_idx, payloads, total_batch_size,
                  todo_inputs, override_seen, override_from, cur, out_idx, cb_count,
                  cb_status, ort_calls, faults, delivery, dist_idx, out_bufs >>

(***************************************************************************)
(* OnnxBackend::Run, after Context::Run returned (lines 286-289).           *)
(***************************************************************************)
\* (variant) only the input handles are released
ReleaseInputTensorsOnly(ctx) == [ctx EXCEPT !.input_tensors_ = <<>>]

\* (variant) only the output handles are released
ReleaseOutputTensorsOnly(ctx) == [ctx EXCEPT !.output_tensors_ = <<>>]

\* ReleaseOrtRunResources (lines 569-587): every handle released, lists cleared
ReleaseOrtRunResources(ctx) ==
  [ctx EXCEPT !.input_tensors_ = <<>>, !.output_tensors_ = <<>>]

ReleaseRun(t) ==
  /\ pc[t] = "release"
  /\ contexts_' = [contexts_ EXCEPT ![runner_idx[t] + 1] =
                     ReleaseOrtRunResources(@)]
  /\ pc' = [pc EXCEPT ![t] = "callback"]
  /\ UNCHANGED << model_config, load_status, runner_cnt, runner_idx, payloads,
                  total_batch_size, todo_inputs, override_seen, override_from, input_names, output_names,
                  input_buffers, cur, out_idx, ret, cb_count, cb_status,
                  ort_calls, faults, delivery, dist_idx, out_bufs >>

\* line 289: OnCompleteQueuedPayloads(status)
CompleteCallback(t) ==
  /\ pc[t] = "callback"
  /\ cb_count' = [cb_count EXCEPT ![t] = @ + 1]
  /\ cb_status' = [cb_status EXCEPT ![t] = CompletionStatus(t)]
  /\ pc' = [pc EXCEPT ![t] = "done"]
  /\ UNCHANGED << ctx_vars, runner_idx, payloads, total_batch_size,
                  todo_inputs, override_seen, override_from, input_names, output_names, input_buffers, cur,
                  out_idx, ret, ort_calls, faults, delivery, dist_idx, out_bufs >>

\* Run has returned: the scheduler takes the payloads back, and the runner
\* thread waits for its next batch
RunnerIdle(t) ==
  /\ pc[t] = "done"
  /\ pc' = [pc EXCEPT ![t] = "idle"]
  /\ runner_idx' = [runner_idx EXCEPT ![t] = 0]
  /\ payloads' = [payloads EXCEPT ![t] = <<>>]
  /\ total_batch_size' = [total_batch_size EXCEPT ![t] = 0]
  /\ todo_inputs' = [todo_inputs EXCEPT ![t] = <<>>]
  /\ override_seen' = [override_seen EXCEPT ![t] = FALSE]
  /\ override_from' = [override_from EXCEPT ![t] = 0]
  /\ cur' = [cur EXCEPT ![t] = NoCur]
  /\ out_idx' = [out_idx EXCEPT ![t] = 0]
  /\ ret' = [ret EXCEPT ![t] = "none"]
  /\ cb_count' = [cb_count EXCEPT ![t] = 0]
  /\ cb_status' = [cb_status EXCEPT ![t] = "none"]
  /\ ort_calls' = [ort_calls EXCEPT ![t] = 0]
  /\ faults' = [faults EXCEPT ![t] = 0]
  /\ delivery' = [delivery EXCEPT ![t] = <<>>]
  /\ dist_idx' = [dist_idx EXCEPT ![t] = 0]
  /\ out_bufs' = [out_bufs EXCEPT ![t] = <<>>]
  /\ UNCHANGED << ctx_vars, input_names, output_names, input_buffers >>

(***************************************************************************)
(* The system.                                                              *)
(***************************************************************************)
\* the steps of a dispatch under way on thread t
RunStep(t) ==
  \/ CollectBatch(t)
  \/ SetInputTensorBegin(t)
  \/ CopySkip(t)
  \/ PullError(t)
  \/ PullNull(t)
  \/ PullChunk(t)
  \/ WrapTensor(t)
  \/ InputOverride(t)
  \/ OrtRun(t)
  \/ ReadOutputTensor(t)
  \/ ReadOutputsDone(t)
  \/ ReleaseRun(t)
  \/ CompleteCallback(t)

Next ==
  \/ CreateExecutionContexts
  \/ \E t \in Threads : Dispatch(t)
  \/ \E t \in Threads : RunStep(t)
  \/ \E t \in Threads : RunnerIdle(t)

Spec == Init /\ [][Next]_vars

\* a dispatch, once made, runs to completion: Run is a plain synchronous call
\* on the runner's thread
FairSpec == Spec /\ \A t \in Threads : WF_vars(RunStep(t))

\* a model with two contexts, each with its runner thread
SpecPar == InitPar /\ [][Next]_vars


(***************************************************************************)
(* Properties.                                                              *)
(***************************************************************************)
IsError(status) == status \notin {"Success", "none"}

\* thread t is in a dispatch to an existing context
ValidRun(t) == pc[t] # "idle" /\ ValidRunner(runner_idx[t])

\* Context::Run of thread t has returned, or OnnxBackend::Run has called back
Returned(t) == pc[t] \in {"release", "callback", "done"}

PayloadIdx(t) == 1..Len(payloads[t])

\* the descriptor of an assembled input
InputByName(name) ==
  IF name = OverrideInput.name THEN OverrideInput
  ELSE CHOOSE c \in {ConfigInputs[k] : k \in 1..Len(ConfigInputs)} :
         c.name = name

\* the input buffers whose payload loop has ended
CompleteBuffers(t) ==
  {i \in 1..Len(input_buffers[t]) :
     i < Len(input_buffers[t]) \/ pc[t] # "copy"}

\* payload p's source delivered input i in full
FullFor(t, p, i) == delivery[t][p] = 0 \/ delivery[t][p] > i

\* the region of payload p in assembled buffer i, by the stated layout
PayloadRegion(t, i, p) ==
  LET b1 == Batch1ByteSize(InputByName(input_names[t][i]))
  IN Slice(input_buffers[t][i], BatchBefore(payloads[t], p) * b1,
           payloads[t][p].batch_size * b1)

\* the whole content payload p holds for assembled input i
PayloadContent(t, i, p) ==
  LET input == InputByName(input_names[t][i])
  IN ContentBytes(p, input.name, 0,
                  payloads[t][p].batch_size * Batch1ByteSize(input))

\* the combined output distributed last, and the slice of it that belongs to
\* payload p by the stated layout
LastOutput(t) == Ctx(t).output_tensors_[dist_idx[t]]

OutputSliceOf(t, p) ==
  LET content == LastOutput(t).content
      item == Len(content) \div SumBatch(payloads[t])
  IN Slice(content, BatchBefore(payloads[t], p) * item,
           payloads[t][p].batch_size * item)

\* an output has been distributed and its tensor is still at hand
Distributed(t) == pc[t] = "read_output" /\ dist_idx[t] >= 1

NoOutputTouched(t) ==
  /\ dist_idx[t] = 0
  /\ \A p \in PayloadIdx(t) : out_bufs[t][p].state = "none"

NoInputAssembled(t) ==
  /\ input_buffers[t] = <<>>
  /\ Ctx(t).input_tensors_ = <<>>

\* C1: every dispatch calls the completion callback, exactly once, with the
\* status the run ended in (the index error for a runner index past the
\* contexts, else what Context::Run returned).
C1_CallbackCount(t) ==
  /\ cb_count[t] <= 1
  /\ pc[t] \notin {"idle", "done"} => cb_count[t] = 0
  /\ pc[t] = "done" =>
       /\ cb_count[t] = 1
       /\ cb_status[t] = IF ValidRunner(runner_idx[t]) THEN ret[t]
                         ELSE "ERR_RUNNER_INDEX"
       /\ cb_status[t] # "none"

C2_ReleasedBeforeCallback ==
  \A t \in Threads :
    (pc[t] \in {"callback", "done"} /\ ValidRunner(runner_idx[t])) =>
      /\ Ctx(t).input_tensors_ = <<>>
      /\ Ctx(t).output_tensors_ = <<>>

C2_Witness ==
  \E t \in Threads :
    /\ pc[t] = "callback" /\ ret[t] = "Success" /\ ort_calls[t] = 1
    /\ \E p \in PayloadIdx(t) : payloads[t][p].status = "INTERNAL"

\* C3: an assembled input buffer has (sum of the batch sizes) x (per-item byte
\* size) bytes and, when every payload delivered the input in full, holds
\* payload p's content at offset (batch sizes before p) x (per-item byte
\* size), for every payload p of the list.
C3_InputAssembly ==
  \A t \in Threads : \A i \in CompleteBuffers(t) :
    /\ Len(input_buffers[t][i]) =
         SumBatch(payloads[t]) * Batch1ByteSize(InputByName(input_names[t][i]))
    /\ (\A p \in PayloadIdx(t) : FullFor(t, p, i)) =>
         \A p \in PayloadIdx(t) : PayloadRegion(t, i, p) = PayloadContent(t, i, p)

C3_Witness ==
  \E t \in Threads :
    /\ pc[t] = "ort_run"
    /\ Len(payloads[t]) = 2
    /\ payloads[t][1].batch_size = 2 /\ payloads[t][2].batch_size = 1
    /\ Len(input_buffers[t]) = 2
    /\ \A p \in PayloadIdx(t) : delivery[t][p] = 0

\* C4: the bytes copied into a payload's response buffer for an output are
\* the payload's batch_size x per-item bytes of the combined output that
\* start at (batch sizes before it) x per-item bytes, whether or not the
\* payloads before it required the output.
C4_OutputDistribution ==
  \A t \in Threads :
    Distributed(t) =>
      \A p \in PayloadIdx(t) :
        out_bufs[t][p].state = "ok" =>
          out_bufs[t][p].bytes = OutputSliceOf(t, p)

C4_Witness ==
  \E t \in Threads :
    /\ Distributed(t)
    /\ Len(payloads[t]) = 2
    /\ payloads[t][1].batch_size >= 1 /\ payloads[t][2].batch_size >= 1
    /\ out_bufs[t][1].state = "not_required"
    /\ out_bufs[t][2].state = "ok"
    /\ out_bufs[t][2].bytes # <<>>


\* C5: a dispatch whose total batch size is neither 1 nor within the
\* context's maximum fails as a whole (error to the callback, runtime never
\* invoked, no response buffer allocated or written); a total of 1, or one
\* within the maximum, is never rejected for the batch size, also on a
\* context without batching.
C5_BatchSizeRule ==
  \A t \in Threads :
    (ValidRun(t) /\ pc[t] # "ctx_run") =>
      LET total == SumBatch(payloads[t])
          max == Ctx(t).max_batch_size_
      IN IF total # 1 /\ total > max
           THEN /\ Returned(t) /\ IsError(ret[t])
                /\ ort_calls[t] = 0
                /\ NoOutputTouched(t)
                /\ pc[t] = "done" => IsError(cb_status[t])
           ELSE ret[t] # "ERR_BATCH_SIZE"

C5_Witness ==
  \E t \in Threads :
    /\ pc[t] = "done" /\ cb_status[t] = "ERR_BATCH_SIZE"
    /\ \A p \in PayloadIdx(t) : payloads[t][p].status = "OK"

C8_AllPreFailedSucceeds ==
  \A t \in Threads :
    ( /\ pc[t] = "done" /\ ValidRunner(runner_idx[t])
      /\ payloads[t] # <<>>
      /\ \A p \in PayloadIdx(t) : payloads[t][p].status = "PRE_FAILED" ) =>
      /\ cb_status[t] = "Success"
      /\ ort_calls[t] = 0

\* the run errors a payload's own failure could be mistaken for
PayloadErrors == {"ERR_CONTENT", "INTERNAL", "INVALID_ARG", "ERR_ALLOC"}

\* the bytes the runtime computes for payload p's rows of output o from the
\* payload's own content, for the inputs assembled
OwnOutput(t, p, o) ==
  LET rowbytes == GetElementCount(o.dims) * GetDataTypeByteSize(o.data_type)
      first == BatchBefore(payloads[t], p)
  IN [m \in 1..(payloads[t][p].batch_size * rowbytes) |->
        LET r == (m - 1) \div rowbytes
        IN << o.name, (m - 1) % rowbytes,
              [i \in 1..Len(input_names[t]) |->
                 LET input == InputByName(input_names[t][i])
                     b1 == Batch1ByteSize(input)
                 IN ContentBytes(p, input.name, r * b1, b1)] >>]

\* the combined output distributed last has the configured size
WellSized(t) ==
  Len(LastOutput(t).content) =
    SumBatch(payloads[t]) * GetElementCount(ConfigOutputs[dist_idx[t]].dims)
      * GetDataTypeByteSize(ConfigOutputs[dist_idx[t]].data_type)

\* C9: a payload whose source misdelivers an input (too few bytes, or more
\* than its share) fails alone: a payload whose own sources delivered in full
\* stays OK through assembly, the run goes on and never ends in a payload's
\* error, every such sibling's region of every assembled buffer holds the
\* sibling's content at its offset, and the output the sibling receives is
\* the one computed from its own content.
C9_SiblingsUndisturbed ==
  \A t \in Threads :
    /\ ret[t] \notin PayloadErrors
    /\ pc[t] \in {"copy", "wrap"} => cur[t].pl <= Len(payloads[t]) + 1
    /\ \A p \in PayloadIdx(t) :
         /\ (pc[t] \in {"set_input", "copy", "wrap", "override", "ort_run"}
             /\ delivery[t][p] = 0) => payloads[t][p].status = "OK"
         /\ (ValidRun(t) /\ delivery[t][p] = 0) =>
              payloads[t][p].status \in {"OK", "ERR_ALLOC", "PRE_FAILED"}
         /\ \A i \in CompleteBuffers(t) :
              FullFor(t, p, i) => PayloadRegion(t, i, p) = PayloadContent(t, i, p)
         /\ ( /\ Distributed(t) /\ WellSized(t)
              /\ delivery[t][p] = 0
              /\ out_bufs[t][p].state = "ok" ) =>
              out_bufs[t][p].bytes = OwnOutput(t, p, ConfigOutputs[dist_idx[t]])

C9_Witness ==
  \E t \in Threads :
    /\ Distributed(t) /\ WellSized(t)
    /\ Len(payloads[t]) = 2
    /\ payloads[t][1].batch_size = 1 /\ payloads[t][2].batch_size = 2
    /\ delivery[t][1] = 1 /\ payloads[t][1].status = "INTERNAL"
    /\ delivery[t][2] = 0 /\ payloads[t][2].status = "OK"
    /\ out_bufs[t][2].state = "ok"

\* C10: when the allocation of a payload's response buffer fails for an
\* output, that payload's status becomes the allocation error and nothing is
\* copied for it; the status of every payload whose allocation did not fail
\* is left as it was, a payload that got a buffer gets its slice of the
\* output, and a run that distributed every output ends in success.
C10_StatusStep(t) ==
  (pc[t] = "read_output" /\ dist_idx'[t] # dist_idx[t] /\ pc'[t] = "read_output") =>
    \A p \in PayloadIdx(t) :
      IF out_bufs'[t][p].state = "alloc_failed"
        THEN payloads'[t][p].status = "ERR_ALLOC"
        ELSE payloads'[t][p].status = payloads[t][p].status

C10_State(t) ==
  /\ ret[t] # "ERR_ALLOC"
  /\ (Returned(t) /\ dist_idx[t] = Len(ConfigOutputs)) => ret[t] = "Success"
  /\ (pc[t] = "done" /\ dist_idx[t] = Len(ConfigOutputs)) =>
       cb_status[t] = "Success"
  /\ Distributed(t) =>
       \A p \in PayloadIdx(t) :
         /\ out_bufs[t][p].state = "alloc_failed" =>
              /\ out_bufs[t][p].bytes = <<>>
              /\ payloads[t][p].status = "ERR_ALLOC"
         /\ out_bufs[t][p].state = "ok" =>
              out_bufs[t][p].bytes = OutputSliceOf(t, p)

C10_AllocationFailureIsLocal ==
  /\ [](\A t \in Threads : C10_State(t))
  /\ [][\A t \in Threads : C10_StatusStep(t)]_vars

C10_Witness ==
  \E t \in Threads :
    /\ pc[t] = "done" /\ cb_status[t] = "Success"
    /\ Len(payloads[t]) = 2
    /\ payloads[t][1].status = "ERR_ALLOC"
    /\ payloads[t][2].status = "OK"
    /\ out_bufs[t][2].state = "ok" /\ out_bufs[t][2].bytes # <<>>


\* the status codes Context::Run returns before the runtime is reached
EarlyErrors == {"ERR_PAYLOAD_STATUS", "ERR_BATCH_SIZE", "ERR_ORT_TENSOR"}

\* C11: in one dispatch the runtime is invoked at most once; it is invoked
\* exactly once when the total batch size is non-zero and legal and every
\* input tensor was built; the invocation comes after all inputs are
\* assembled and before any output is distributed, and never on a path
\* where the run has already failed.
C11_RuntimeInvokedOnce ==
  \A t \in Threads :
    /\ ort_calls[t] <= 1
    /\ dist_idx[t] >= 1 => ort_calls[t] = 1
    /\ ValidRun(t) =>
         LET total == SumBatch(payloads[t])
         IN /\ ort_calls[t] = 1 =>
                 /\ total # 0
                 /\ total = 1 \/ total <= Ctx(t).max_batch_size_
                 /\ \A p \in PayloadIdx(t) : payloads[t][p].status # "PRE_FAILED"
            /\ pc[t] \in {"ctx_run", "set_input", "copy", "wrap", "override",
                          "ort_run"} => ort_calls[t] = 0 /\ ret[t] = "none"
            /\ pc[t] = "read_output" =>
                 /\ ort_calls[t] = 1
                 /\ todo_inputs[t] = <<>>
                 /\ Len(input_names[t]) >= Len(ConfigInputs)
                 /\ Len(Ctx(t).input_tensors_) = Len(input_names[t])
                 /\ \A i \in 1..Len(input_names[t]) :
                      /\ Ctx(t).input_tensors_[i] # NULL
                      /\ Ctx(t).input_tensors_[i].buffer = i
            /\ Returned(t) =>
                 (ort_calls[t] = 1 <=>
                    (total # 0 /\ ret[t] \notin EarlyErrors))

C11_Witness ==
  \E t \in Threads :
    /\ pc[t] = "read_output" /\ dist_idx[t] = 0 /\ ort_calls[t] = 1
    /\ Len(input_names[t]) = 2
    /\ Len(payloads[t]) = 2

\* C12: the output names handed to the runtime are the outputs of the model
\* configuration, all of them and in configuration order, whatever outputs
\* the payloads require; a tensor is reserved for each.
C12_AllOutputsRequested ==
  \A t \in Threads :
    /\ pc[t] = "read_output" =>
         /\ output_names[t] = [k \in 1..Len(ConfigOutputs) |-> ConfigOutputs[k].name]
         /\ Len(Ctx(t).output_tensors_) = Len(ConfigOutputs)
    /\ (ValidRun(t) /\ ort_calls[t] = 1 /\ pc[t] = "release") =>
         Len(Ctx(t).output_tensors_) = Len(ConfigOutputs)

C12_Witness ==
  \E t \in Threads :
    /\ Distributed(t) /\ dist_idx[t] = Len(ConfigOutputs)
    /\ Len(payloads[t]) = 2
    /\ \A p \in PayloadIdx(t) :
         /\ out_bufs[t][p].state = "not_required"
         /\ payloads[t][p].status = "OK"
    /\ LastOutput(t) # NULL

\* C13: when the runtime call fails the run fails as a whole: the callback
\* gets the error, no payload has an output buffer allocated or written, and
\* the runtime is not called again in the dispatch.
C13_RuntimeFailureIsAtomic ==
  \A t \in Threads :
    /\ pc[t] = "ort_run" => ort_calls[t] = 0
    /\ ret[t] = "ERR_ORT_RUN" =>
         /\ ort_calls[t] = 1
         /\ NoOutputTouched(t)
         /\ pc[t] \in {"release", "callback", "done"}
         /\ pc[t] = "done" => cb_status[t] = "ERR_ORT_RUN"
    /\ (ValidRun(t) /\ pc[t] = "release" /\ ort_calls[t] = 1
        /\ \A k \in 1..Len(Ctx(t).output_tensors_) :
             Ctx(t).output_tensors_[k] = NULL) =>
         /\ ret[t] = "ERR_ORT_RUN"
         /\ NoOutputTouched(t)

C13_Witness ==
  \E t \in Threads :
    /\ pc[t] = "done" /\ cb_status[t] = "ERR_ORT_RUN" /\ ort_calls[t] = 1
    /\ Len(payloads[t]) = 2
    /\ \A p \in PayloadIdx(t) :
         payloads[t][p].status = "OK" /\ out_bufs[t][p].state = "none"

\* C14 (the claim as stated): an output whose combined byte size is not the
\* total batch size times the per-item byte size of the configured datatype
\* and shape is never distributed to a payload.
C14_MismatchedOutputRejected ==
  \A t \in Threads : Distributed(t) => WellSized(t)


\* thread t is inside Context::Run or has not yet released its handles
UsesContext(t) ==
  /\ ValidRun(t)
  /\ pc[t] \in {"set_input", "copy", "wrap", "override", "ort_run",
                "read_output", "release"}

\* thread t is between its dispatch and its callback
InProgress(t) == ValidRun(t) /\ pc[t] # "done"

\* C15: on every context at most one run is in progress: a run is dispatched
\* to a context only when no other run on it is under way, and the handle
\* lists of a context hold the handles of the one run using it.
C15_OneRunPerContext ==
  /\ \A t, u \in Threads :
       (t # u /\ InProgress(t) /\ InProgress(u)) => runner_idx[t] # runner_idx[u]
  /\ \A t \in Threads :
       /\ (ValidRun(t) /\ pc[t] = "ctx_run") =>
            Ctx(t).input_tensors_ = <<>> /\ Ctx(t).output_tensors_ = <<>>
       /\ (ValidRun(t) /\ pc[t] \in {"set_input", "copy", "wrap", "override",
                                     "ort_run", "read_output"}) =>
            Len(Ctx(t).input_tensors_) = Len(input_names[t])
  /\ \A c \in 1..Len(contexts_) :
       (\A t \in Threads : ~ (UsesContext(t) /\ runner_idx[t] + 1 = c)) =>
         contexts_[c].input_tensors_ = <<>> /\ contexts_[c].output_tensors_ = <<>>

C15_Witness ==
  /\ Len(contexts_) = 2
  /\ pc[0] = "copy" /\ runner_idx[0] = 0
  /\ pc[1] = "read_output" /\ runner_idx[1] = 1

\* everything a dispatch on thread t owns
ThreadState(t) ==
  << pc[t], runner_idx[t], payloads[t], total_batch_size[t], todo_inputs[t],
     override_seen[t], override_from[t], input_names[t], output_names[t], input_buffers[t],
     cur[t], out_idx[t], ret[t], cb_count[t], cb_status[t], ort_calls[t],
     faults[t], delivery[t], dist_idx[t], out_bufs[t] >>

\* C16: runs on different contexts are independent: a step of the run on
\* thread t changes only what that dispatch owns and the per-run state of
\* the context of its runner index; every other thread's payloads, statuses
\* and terminal status, every other context and the backend's configuration
\* stay as they are.
C16_Step(t) ==
  (ThreadState(t)' # ThreadState(t)) =>
    /\ \A u \in Threads \ {t} : ThreadState(u)' = ThreadState(u)
    /\ UNCHANGED << model_config, load_status, runner_cnt >>
    /\ Len(contexts_') = Len(contexts_)
    /\ \A c \in 1..Len(contexts_) :
         contexts_'[c] # contexts_[c] =>
           /\ c = runner_idx[t] + 1
           /\ runner_idx'[t] = runner_idx[t]
           /\ contexts_'[c].session_ = contexts_[c].session_
           /\ contexts_'[c].allocator_info_ = contexts_[c].allocator_info_
           /\ contexts_'[c].max_batch_size_ = contexts_[c].max_batch_size_
           /\ contexts_'[c].gpu_device_ = contexts_[c].gpu_device_

C16_ContextsIndependent ==
  [][ /\ \A t \in Threads : C16_Step(t)
      /\ (load_status = "ok" /\ contexts_' # contexts_) =>
           \E t \in Threads : ThreadState(t)' # ThreadState(t) ]_vars

C16_Witness ==
  /\ Len(contexts_) = 2
  /\ pc[0] = "done" /\ runner_idx[0] = 0 /\ cb_status[0] = "ERR_ORT_RUN"
  /\ pc[1] = "done" /\ runner_idx[1] = 1 /\ cb_status[1] = "Success"
  /\ Len(payloads[1]) = 1 /\ payloads[1][1].status = "OK"
  /\ out_bufs[1][1].state = "ok"

\* the context as CreateExecutionContext leaves it
FreshContext(c) ==
  NewContext(InstanceList(model_config.instance_group)[c],
             model_config.max_batch_size, "ok")

\* C17: a context carries no per-run state from one run to the next and keeps
\* its session and allocator handles: whenever no run is using it the context
\* is as it was created (both handle lists empty), also after a run that
\* failed at any step; so at the runtime invocation the input handles are
\* those of the input names assembled in that run.
C17_NoResidualState ==
  load_status = "ok" =>
    /\ \A c \in 1..Len(contexts_) :
         /\ contexts_[c].session_ = FreshContext(c).session_
         /\ contexts_[c].allocator_info_ = FreshContext(c).allocator_info_
         /\ contexts_[c].session_ # NULL /\ contexts_[c].allocator_info_ # NULL
         /\ (\A t \in Threads : ~ (UsesContext(t) /\ runner_idx[t] + 1 = c)) =>
              contexts_[c] = FreshContext(c)
    /\ \A t \in Threads :
         /\ (ValidRun(t) /\ pc[t] \in {"ort_run", "read_output"}) =>
              Len(Ctx(t).input_tensors_) = Len(input_names[t])
         /\ (ValidRun(t) /\ pc[t] = "read_output") =>
              Len(Ctx(t).output_tensors_) = Len(output_names[t])

C17_Witness ==
  \E t \in Threads :
    /\ pc[t] = "callback" /\ ret[t] = "ERR_OUTPUT_SIZE"
    /\ dist_idx[t] = 1
    /\ Ctx(t) = FreshContext(runner_idx[t] + 1)

\* the contexts the instance groups ask for: one per replica of a CPU group,
\* one per replica and listed device of any other group
RECURSIVE ConfiguredInstanceCount(_)
ConfiguredInstanceCount(groups) ==
  IF groups = <<>> THEN 0
  ELSE (IF Head(groups).kind = "KIND_CPU" THEN Head(groups).count
        ELSE Head(groups).count * Len(Head(groups).gpus))
       + ConfiguredInstanceCount(Tail(groups))

\* C18: after a successful load the runners registered are as many as the
\* contexts created, one per CPU replica and one per replica and listed
\* device otherwise; the registration happens once, with all contexts in
\* place, and the contexts stay where they are: the dispatch with runner
\* index i works on context i.
C18_State ==
  /\ load_status = "ok" =>
       /\ runner_cnt = Len(contexts_)
       /\ Len(contexts_) = ConfiguredInstanceCount(model_config.instance_group)
       /\ \A c \in 1..Len(contexts_) : contexts_[c].allocator_info_ # NULL
  /\ load_status # "ok" => runner_cnt = 0
  /\ \A t \in Threads :
       pc[t] # "idle" => t < runner_cnt /\ runner_idx[t] \in {t, Len(contexts_)}
  /\ \A c \in 1..Len(contexts_) :
       (\A t \in Threads : ~ (UsesContext(t) /\ runner_idx[t] + 1 = c)) =>
         contexts_[c].input_tensors_ = <<>> /\ contexts_[c].output_tensors_ = <<>>

C18_Step ==
  /\ runner_cnt' # runner_cnt =>
       /\ load_status = "none" /\ load_status' = "ok"
       /\ runner_cnt = 0
       /\ runner_cnt' = Len(contexts_')
  /\ load_status # "none" =>
       /\ load_status' = load_status
       /\ Len(contexts_') = Len(contexts_)
       /\ \A c \in 1..Len(contexts_) :
            /\ contexts_'[c].gpu_device_ = contexts_[c].gpu_device_
            /\ contexts_'[c].session_ = contexts_[c].session_

C18_RunnerPerContext == [] C18_State /\ [][C18_Step]_vars

C18_Witness ==
  /\ load_status = "ok" /\ runner_cnt = 2
  /\ contexts_[1].gpu_device_ = 0 /\ contexts_[2].gpu_device_ = 1
  /\ pc[1] = "read_output" /\ runner_idx[1] = 1
  /\ pc[0] = "idle"

\* C19: when the creation of a context fails (a configured input or output
\* that the model does not have or whose datatype the runtime does not know,
\* a failed device query, or any other step), the load returns the error,
\* no further context is created and no runner is registered, so no dispatch
\* is ever made.
C19_FailedCreationStopsLoad ==
  /\ load_status \notin {"none", "ok"} =>
       /\ load_status \in CreateOutcomes
       /\ runner_cnt = 0
       /\ \A t \in Threads : pc[t] = "idle" /\ cb_count[t] = 0
       /\ Len(contexts_) <= ConfiguredInstanceCount(model_config.instance_group)
       /\ \A c \in 1..Len(contexts_) :
            c < Len(contexts_) => contexts_[c] = FreshContext(c)
       /\ Len(contexts_) = ConfiguredInstanceCount(model_config.instance_group) =>
            contexts_[Len(contexts_)].allocator_info_ = NULL
  /\ \A t \in Threads :
       pc[t] # "idle" =>
         /\ load_status = "ok"
         /\ \A c \in 1..Len(contexts_) :
              contexts_[c].session_ # NULL /\ contexts_[c].allocator_info_ # NULL

C19_Witness ==
  /\ load_status = "validate_inputs"
  /\ ConfiguredInstanceCount(model_config.instance_group) = 2
  /\ Len(contexts_) = 1
  /\ contexts_[1].allocator_info_ = NULL

\* C20 (the claim as stated): a payload that failed during input assembly
\* gets no output handling: for no output is its allocator asked for a
\* buffer or a byte copied to it.
C20_FailedPayloadExcluded ==
  \A t \in Threads :
    Distributed(t) =>
      \A p \in PayloadIdx(t) :
        delivery[t][p] # 0 => out_bufs[t][p].state \notin {"ok", "alloc_failed"}

\* sum of the batch sizes of the payloads at the positions in S
RECURSIVE BatchSizeOver(_, _)
BatchSizeOver(pls, S) ==
  IF S = {} THEN 0
  ELSE LET p == CHOOSE q \in S : TRUE
       IN pls[p].batch_size + BatchSizeOver(pls, S \ {p})

\* the positions of the payloads whose status is OK
OkPayloads(t) == {p \in PayloadIdx(t) : payloads[t][p].status = "OK"}

\* the runtime is about to be invoked with the assembled inputs
AtInvocation(t) == ValidRun(t) /\ pc[t] = "ort_run"

\* the total the buffers and tensors of the run were sized with is `total`
RunSizedWith(t, total) ==
  /\ total_batch_size[t] = total
  /\ \A i \in 1..Len(input_buffers[t]) :
       LET input == InputByName(input_names[t][i])
       IN /\ Len(input_buffers[t][i]) = total * Batch1ByteSize(input)
          /\ Ctx(t).input_tensors_[i] # NULL
          /\ Ctx(t).input_tensors_[i].dims =
               InputDims(Ctx(t).max_batch_size_, total, input.dims)

\* C21 (the claim as stated): when the runtime is invoked, the total batch
\* size of the run (buffers, batch dimension, output divisor) is the sum of
\* the batch sizes of the payloads that are OK at that moment.
C21_TotalIsSumOfOkPayloads ==
  \A t \in Threads :
    AtInvocation(t) =>
      RunSizedWith(t, BatchSizeOver(payloads[t], OkPayloads(t)))

\* C21 (amended): when the runtime is invoked, the total batch size of the
\* run is the sum of the batch sizes of all the payloads of the dispatch,
\* every one of which was OK when Context::Run began: every input buffer and
\* every tensor's batch dimension is sized with it, the rows of a payload
\* that failed during assembly included, and each output is split by it.
C21_TotalIsSumOfAllPayloads ==
  \A t \in Threads :
    /\ AtInvocation(t) =>
         RunSizedWith(t, BatchSizeOver(payloads[t], PayloadIdx(t)))
    /\ Distributed(t) =>
         \A p \in PayloadIdx(t) :
           out_bufs[t][p].state = "ok" =>
             Len(out_bufs[t][p].bytes) =
               payloads[t][p].batch_size *
                 (Len(LastOutput(t).content)
                    \div BatchSizeOver(payloads[t], PayloadIdx(t)))

C21_Witness ==
  \E t \in Threads :
    /\ AtInvocation(t)
    /\ Len(payloads[t]) = 2
    /\ payloads[t][1].batch_size > 0
    /\ payloads[t][1].status # "OK"
    /\ payloads[t][2].status = "OK"
    /\ total_batch_size[t] = payloads[t][1].batch_size + payloads[t][2].batch_size

\* the names of the input tensors assembled for the run of thread t
AssembledNames(t) ==
  {input_names[t][i] : i \in {j \in 1..Len(input_names[t]) :
                                 Ctx(t).input_tensors_[j] # NULL}}

\* C22 (the claim as stated): the input tensors assembled for a run are one
\* per declared input name plus one for the input override a payload of the
\* batch supplies, at whatever position of the payload list that payload is.
C22_EveryOverrideAssembled ==
  \A t \in Threads :
    AtInvocation(t) =>
      AssembledNames(t) =
        {ConfigInputs[k].name : k \in 1..Len(ConfigInputs)}
          \cup (IF override_from[t] # 0 THEN {OverrideInput.name} ELSE {})

\* the buffer an input tensor handle wraps is still owned by the run
BufferOwned(t, handle) == handle.buffer \in 1..Len(input_buffers[t])

\* C23 (the claim as stated): on every exit path of a run, the buffer behind
\* an assembled input tensor stays owned for as long as the tensor handle
\* that wraps it has not been released.
C23_BufferOutlivesTensor ==
  \A t \in Threads :
    ValidRun(t) =>
      \A i \in 1..Len(Ctx(t).input_tensors_) :
        Ctx(t).input_tensors_[i] # NULL =>
          BufferOwned(t, Ctx(t).input_tensors_[i])

\* the payload being pulled has had its expected byte count copied
Satisfied(t) ==
  /\ pc[t] = "copy"
  /\ payloads[t][cur[t].pl].status = "OK"
  /\ cur[t].copied > 0
  /\ cur[t].copied >=
       ExpectedByteSize(payloads[t], cur[t].pl, Head(todo_inputs[t]))

\* a step in which thread t calls GetNextInputContent
PullIssued(t) == PullError(t) \/ PullNull(t) \/ PullChunk(t)

\* C24 (the claim as stated): once the expected byte count of a payload has
\* been copied for an input, the assembler issues no further pull to that
\* payload's content source for that input.
C24_NoPullOnceSatisfied ==
  [][\A t \in Threads : Satisfied(t) => ~ PullIssued(t)]_vars

\* thread t's dispatch named a runner index past the contexts
IndexPastContexts(t) == runner_idx[t] >= Len(contexts_)

C25_State ==
  \A t \in Threads :
    /\ (pc[t] \notin {"idle", "done"}) => ~ IndexPastContexts(t)
    /\ (pc[t] = "done" /\ IndexPastContexts(t)) =>
         /\ cb_count[t] = 1
         /\ cb_status[t] = "ERR_RUNNER_INDEX"
         /\ ort_calls[t] = 0
         /\ input_buffers[t] = <<>> /\ input_names[t] = <<>>
         /\ \A p \in PayloadIdx(t) :
              /\ payloads[t][p].status \in PayloadStatuses
              /\ out_bufs[t][p].state = "none"

C25_Step(t) ==
  /\ (pc[t] = "idle" /\ pc'[t] # "idle") =>
       /\ payloads'[t] \in DispatchLists
       /\ IF runner_idx'[t] >= Len(contexts_)
            THEN /\ pc'[t] = "done"
                 /\ cb_count'[t] = 1
                 /\ cb_status'[t] = "ERR_RUNNER_INDEX"
                 /\ UNCHANGED ctx_vars
                 /\ \A u \in Threads \ {t} : ThreadState(u)' = ThreadState(u)
            ELSE /\ pc'[t] = "ctx_run"
                 /\ cb_count'[t] = 0
  /\ (pc[t] = "done" /\ pc'[t] = "done") =>
       /\ cb_count'[t] = cb_count[t]
       /\ payloads'[t] = payloads[t]

\* C25: a dispatch whose runner index is not smaller than the number of
\* contexts calls the completion callback exactly once, with an error
\* status, and does nothing else: no context changes, the payloads keep the
\* status they came with, no input is assembled and the runtime is not
\* invoked; a dispatch with an index in 0..contexts-1 is taken on.
C25_InvalidIndexRejected ==
  [] C25_State /\ [][\A t \in Threads : C25_Step(t)]_vars

C25_Witness ==
  /\ Len(contexts_) = 2
  /\ pc[0] = "copy" /\ runner_idx[0] = 0
  /\ pc[1] = "done" /\ runner_idx[1] = 2
  /\ cb_count[1] = 1 /\ cb_status[1] = "ERR_RUNNER_INDEX"
  /\ Len(payloads[1]) = 1 /\ payloads[1][1].status = "OK"
  /\ contexts_[2].input_tensors_ = <<>>

\* a step of the dispatch thread t has under way
SameRunStep(t) == pc[t] # "idle" /\ pc'[t] # "idle"

C26_Step(t) ==
  /\ SameRunStep(t) =>
       \A p \in PayloadIdx(t) :
         payloads[t][p].status # "OK" => payloads'[t][p].status # "OK"
  /\ (pc[t] = "copy" /\ payloads[t][cur[t].pl].status # "OK") =>
       /\ ~ PullIssued(t)
       /\ (ThreadState(t)' # ThreadState(t)) =>
            /\ cur'[t].pl = cur[t].pl + 1
            /\ input_buffers'[t] = input_buffers[t]
            /\ payloads'[t] = payloads[t]
            /\ delivery'[t] = delivery[t]

\* C26: a payload's failure is sticky within a run: once its status is not
\* OK (a content error while an input was assembled, an allocation failure
\* for an output) no later step of the run sets it back to OK, neither a
\* later input nor a successful allocation for a later output, and a payload
\* whose status is not OK is not asked for content again.
C26_FailureIsSticky ==
  [][\A t \in Threads : C26_Step(t)]_vars

C26_Witness ==
  \E t \in Threads :
    /\ Distributed(t)
    /\ Len(input_names[t]) = 2
    /\ \E p \in PayloadIdx(t) :
         /\ delivery[t][p] = 1
         /\ payloads[t][p].status \in {"ERR_CONTENT", "INTERNAL", "INVALID_ARG"}
         /\ out_bufs[t][p].state = "ok"

\* the input buffers of thread t are as long as they were allocated
BuffersKeepSize(t) ==
  \A i \in 1..Len(input_buffers[t]) :
    Len(input_buffers[t][i]) =
      total_batch_size[t] * Batch1ByteSize(InputByName(input_names[t][i]))

C27_Step(t) ==
  (pc[t] = "copy" /\ pc'[t] \in {"copy", "wrap"}) =>
    LET i == Len(input_buffers[t])
        before == input_buffers[t][i]
        after == input_buffers'[t][i]
        start == cur[t].offset + cur[t].copied
    IN /\ Len(input_buffers'[t]) = i
       /\ \A j \in 1..(i - 1) : input_buffers'[t][j] = input_buffers[t][j]
       /\ Len(after) = Len(before)
       /\ \A k \in 1..Len(before) :
            after[k] # before[k] =>
              /\ cur'[t].pl = cur[t].pl
              /\ k > start /\ k <= cur[t].offset + cur'[t].copied
       /\ ( /\ payloads[t][cur[t].pl].status = "OK"
            /\ payloads'[t][cur[t].pl].status = "INVALID_ARG" ) =>
              after = before

\* C27: every copy into an assembled input buffer stays inside the buffer,
\* whatever the payloads and the sizes of the chunks their sources return,
\* chunks larger than asked for included: a write covers only bytes in
\* [0, total batch x per-item byte size), and a chunk that would pass the end
\* of the buffer is not copied and fails its payload.
C27_CopiesStayInBuffer ==
  /\ [](\A t \in Threads : BuffersKeepSize(t))
  /\ [][\A t \in Threads : C27_Step(t)]_vars

C27_Witness ==
  \E t \in Threads :
    /\ pc[t] = "wrap"
    /\ Len(payloads[t]) = 2
    /\ payloads[t][1].status = "OK"
    /\ payloads[t][2].status = "INVALID_ARG"
    /\ BuffersKeepSize(t)
    /\ \A k \in 1..Len(input_buffers[t][1]) :
         input_buffers[t][1][k] # UNINIT <=>
           k <= ExpectedByteSize(payloads[t], 1, ConfigInputs[1])

====
